---- MODULE Spec2Model ----
(***************************************************************************)
(* The posts API of the blog backend: the koa router of                    *)
(* src/api/posts/index.js and the handlers of src/api/posts/posts.ctrl.js  *)
(* running against the Post collection (models/post).                      *)
(*                                                                         *)
(* Every request is a task that runs synchronously up to its next `await`  *)
(* of a store operation; the store executes one operation at a time.  An   *)
(* action of the model is one such uninterrupted stretch: the store        *)
(* operation the task was waiting for, followed by the handler code up to  *)
(* the next await (or up to the response).                                 *)
(*                                                                         *)
(* Text is modelled at the level the code inspects it: a body is a         *)
(* sequence of HTML tokens (text runs and tags), each with its length in   *)
(* characters, so that sanitizing, the thumbnail regular expression and    *)
(* the 100-character excerpt are computed rather than assumed.             *)
(*                                                                         *)
(* Spec lets the requests on single posts interleave, SpecSeq runs the     *)
(* same requests one after another, SpecList runs list requests against a  *)
(* store of some forty posts while posts are being written.  Requests on   *)
(* the routes behind checkLoggedIn carry an authenticated user; store      *)
(* failures (the 500 answers) are not modelled.                            *)
(***************************************************************************)
EXTENDS Integers, Sequences, FiniteSets, TLC

VARIABLES
    store,   \* the Post collection: _id -> document
    nextId,  \* the next _id the store assigns (ObjectIds grow with time)
    ctx,     \* per request slot: the koa context of the request in flight
    out      \* the response sent by the latest step (NoResp if it sent none)

vars == <<store, nextId, ctx, out>>

-----------------------------------------------------------------------------
(* Bounds of the model *)

\* request slots: how many requests can be in flight at once
MaxReq == 2
\* how many posts the store ever holds in Spec and SpecSeq
MaxPosts == 1
\* a read is started only while the post's count is below this
MaxCount == 2
\* how many posts the store holds in SpecList
MaxListPosts == 41

(* Program constants *)

\* .limit(20), .skip((page - 1) * 20), Math.ceil(postCount / 20)
PageSize == 20
\* filtered.length < 100, filtered.slice(0, 100)
ExcerptLimit == 100
Slots == 1..MaxReq

-----------------------------------------------------------------------------
(* HTML text as tokens *)

\* a run of n characters of plain text
Txt(n) == [k |-> "txt", n |-> n, scheme |-> "", path |-> "", attr |-> ""]
\* an opening or closing tag without attributes, n characters long
Tag(name, n) == [k |-> name, n |-> n, scheme |-> "", path |-> "", attr |-> ""]
\* <img src="scheme://path" attr>; scheme "" is an img tag without src=
Img(scheme, path, attr) ==
    [k |-> "img", n |-> 30, scheme |-> scheme, path |-> path, attr |-> attr]
\* the "..." removeHtmlAndShorten appends
Ellipsis == [k |-> "...", n |-> 3, scheme |-> "", path |-> "", attr |-> ""]

RECURSIVE TextLen(_)
\* String.prototype.length of a token sequence
TextLen(s) == IF s = <<>> THEN 0 ELSE Head(s).n + TextLen(Tail(s))

sanitizeOption ==
    [allowedTags |-> {"h1", "h2", "b", "i", "u", "s", "p", "/p", "ul", "ol",
                      "li", "blockquote", "a", "img", "pre", "span"},
     imgAttributes |-> {"src"},
     allowedSchemes |-> {"data", "http"}]

excerptOption ==
    [allowedTags |-> {"p", "/p"}, imgAttributes |-> {"src"},
     allowedSchemes |-> {"http", "https", "ftp", "mailto"}]

\* sanitize-html on one token: text is kept, a tag outside allowedTags is
\* dropped, an img keeps only its allowed attributes and loses a src whose
\* scheme is not allowed
SanitizeToken(t, opt) ==
    IF t.k = "txt" THEN <<t>>
    ELSE IF t.k \notin opt.allowedTags THEN <<>>
    ELSE IF t.k = "img"
         THEN LET keep == "src" \in opt.imgAttributes /\ t.scheme \in opt.allowedSchemes
              IN <<[t EXCEPT !.attr = "",
                             !.scheme = IF keep THEN t.scheme ELSE "",
                             !.path = IF keep THEN t.path ELSE ""]>>
         ELSE <<t>>

RECURSIVE sanitizeHtml(_, _)
sanitizeHtml(body, opt) ==
    IF body = <<>> THEN <<>>
    ELSE SanitizeToken(Head(body), opt) \o sanitizeHtml(Tail(body), opt)

RECURSIVE Slice(_, _)
\* the first n characters of a token sequence; a token cut in the middle
\* leaves a fragment of the remaining length
Slice(s, n) ==
    IF s = <<>> \/ n <= 0 THEN <<>>
    ELSE IF Head(s).n <= n THEN <<Head(s)>> \o Slice(Tail(s), n - Head(s).n)
    ELSE <<[Head(s) EXCEPT !.n = n,
                           !.k = IF Head(s).k = "txt" THEN "txt" ELSE "cut"]>>

removeHtmlAndShorten(body) ==
    LET filtered == sanitizeHtml(body, excerptOption)
    IN IF TextLen(filtered) < ExcerptLimit
       THEN filtered
       ELSE Slice(filtered, ExcerptLimit) \o <<Ellipsis>>

-----------------------------------------------------------------------------
(* Thumbnail *)

imgArr == <<"img1.jpg", "img2.jpg", "img3.jpg", "img4.jpg", "img5.jpg">>

\* Math.floor(Math.random() * imgArr.length)
RandomIndex == 0..(Len(imgArr) - 1)

\* '<img src="http://localhost:4000/' + imgArr[rnd] + '"/>'
FallbackImage(rnd) == Img("http", imgArr[rnd + 1], "")

\* /<img[^>]*src=[^>]*>/ matches an img tag that carries a src=
MatchesImgReg(t) == t.k = "img" /\ t.scheme # ""

\* an optional value: a property of a JS object that may be missing
\* ("absent") or of the wrong type ("bad")
Ok(v) == [st |-> "ok", v |-> v]
Absent(v) == [st |-> "absent", v |-> v]
Bad(v) == [st |-> "bad", v |-> v]

\* parseImageToBody(body): body is an optional value (update passes
\* nextData.body, which is undefined when the payload has no body: the regex
\* then runs over the text "undefined"); rnd is the random index drawn
parseImageToBody(body, rnd) ==
    LET text == IF body.st = "ok" THEN body.v ELSE <<Txt(9)>>
        hits == {i \in 1..Len(text) : MatchesImgReg(text[i])}
    IN IF hits # {}
       THEN text[CHOOSE i \in hits : \A j \in hits : i <= j]
       ELSE FallbackImage(rnd)

-----------------------------------------------------------------------------
(* Users, documents, requests *)

\* ctx.state.user, as checkLoggedIn has let it through
Alice == [_id |-> "u1", username |-> "alice"]
Bob == [_id |-> "u2", username |-> "bob"]
Users == {Alice, Bob}
\* the user of a route without checkLoggedIn
NoUser == [_id |-> "", username |-> ""]

\* getPostById without its ObjectId.isValid test
ObjectIdIsValidAny(id) == TRUE

\* ObjectId.isValid: ids are numbered, 0 stands for a malformed id string
BadId == 0
ObjectIdIsValid(id) == id >= 1

NoImage == Img("", "", "")

\* the Post schema (publishedDate, set once by its default and written back
\* unchanged ever after, is left out)
MkPost(id, title, body, image, tags, count, user) ==
    [id |-> id, title |-> title, body |-> body, image |-> image,
     tags |-> tags, count |-> count, user |-> user]

\* an update document: the fields findByIdAndUpdate is asked to $set
NoUpdate ==
    [title |-> Absent(""), body |-> Absent(<<>>), tags |-> Absent(<<>>),
     image |-> Absent(NoImage), count |-> Absent(0), user |-> Absent(NoUser)]

\* a mongoose document given as the update: toObject(), every path is $set
DocAsUpdate(post) ==
    [title |-> Ok(post.title), body |-> Ok(post.body), tags |-> Ok(post.tags),
     image |-> Ok(post.image), count |-> Ok(post.count), user |-> Ok(post.user)]

Pick(f, old) == IF f.st = "ok" THEN f.v ELSE old

\* the document after $set of upd
ApplyUpdate(post, upd) ==
    [id |-> post.id,
     title |-> Pick(upd.title, post.title),
     body |-> Pick(upd.body, post.body),
     tags |-> Pick(upd.tags, post.tags),
     image |-> Pick(upd.image, post.image),
     count |-> Pick(upd.count, post.count),
     user |-> Pick(upd.user, post.user)]

\* ctx.request.body of POST and PATCH
MkPayload(title, body, tags) == [title |-> title, body |-> body, tags |-> tags]
NoPayload == MkPayload(Absent(""), Absent(<<>>), Absent(<<>>))

\* a request: method and path, the authenticated user, payload and query
MkReq(method, id, user, payload, page, tag, username) ==
    [method |-> method, id |-> id, user |-> user, payload |-> payload,
     page |-> page, tag |-> tag, username |-> username]
NoReq == MkReq("", BadId, NoUser, NoPayload, Absent(1), "", "")

\* a response: status, body (the documents sent), the Last-Page header, and
\* of the request that got it: the store operations it issued and its
\* ctx.state.post
MkResp(req, status, body, lastPage, ops, post) ==
    [req |-> req, status |-> status, body |-> body, lastPage |-> lastPage,
     ops |-> ops, post |-> post]
NoResp == MkResp(NoReq, 0, <<>>, 0, <<>>, <<>>)

\* the context of a request in flight
MkCtx(pc, req, post, data, posts, ops) ==
    [pc |-> pc, req |-> req, post |-> post, data |-> data, posts |-> posts,
     ops |-> ops]
Idle == MkCtx("idle", NoReq, <<>>, NoUpdate, <<>>, <<>>)

-----------------------------------------------------------------------------------------------------------------------------------------------------
(* Inputs *)

BodyImg == <<Tag("div", 5), Tag("p", 3), Img("http", "a/pic.png", ""), Txt(10), Tag("/p", 4)>>
BodyPlain == <<Tag("p", 3), Txt(20), Tag("/p", 4)>>
BodyLong == <<Tag("p", 3), Txt(150), Img("https", "b/pic.png", "onerror"), Tag("/p", 4)>>

FullPayload == MkPayload(Ok("t1"), Ok(BodyImg), Ok(<<"go">>))
OnlyTags == MkPayload(Absent(""), Absent(<<>>), Ok(<<"js">>))
BadTitle == MkPayload(Bad(""), Ok(BodyPlain), Ok(<<"go">>))

\* the payloads of POST and PATCH requests
Payloads == {FullPayload, OnlyTags, BadTitle}

\* ctx.query.page: missing, or the text of an integer
PageInputs == {Absent(1)} \cup {Ok(p) : p \in -1..3}
TagInputs == {"", "go"}
UsernameInputs == {"", "alice"}

\* the :id of a request: malformed, or well-formed (stored or not)
IdInputs == {BadId} \cup 1..nextId

-----------------------------------------------------------------------------
(* Validation and authorization *)

\* Joi: title string required, body string required, tags array required
ValidWrite(payload) ==
    payload.title.st = "ok" /\ payload.body.st = "ok" /\ payload.tags.st = "ok"

\* an update schema that leaves the title unchecked
ValidUpdateNoTitle(payload) ==
    payload.body.st # "bad" /\ payload.tags.st # "bad"

\* Joi: title string, body string, tags array of strings, each optional
ValidUpdate(payload) ==
    payload.title.st # "bad" /\ payload.body.st # "bad" /\ payload.tags.st # "bad"

\* an ownership check that lets every logged-in user through
IsOwnPostAnyUser(post, user) == user._id # ""

\* post.user._id.toString() !== user._id  is false
IsOwnPost(post, user) == post.user._id = user._id

-----------------------------------------------------------------------------
(* The store's queries *)

\* the filter list builds: a falsy tag or username imposes no constraint
MkQuery(tag, username) == [tag |-> tag, username |-> username]

InTags(tag, tags) == \E i \in 1..Len(tags) : tags[i] = tag

Matches(post, query) ==
    /\ query.username = "" \/ post.user.username = query.username
    /\ query.tag = "" \/ InTags(query.tag, post.tags)

RECURSIVE SortDesc(_, _)
\* .sort({ _id: -1 }): the ids of the set at most n, from the highest down
SortDesc(ids, n) ==
    IF n < 1 THEN <<>>
    ELSE (IF n \in ids THEN <<n>> ELSE <<>>) \o SortDesc(ids, n - 1)

Min(a, b) == IF a <= b THEN a ELSE b

\* .skip(page * 20)
SkipOfPageItself(page) == page * PageSize

\* how many documents .skip skips
SkipOf(page) == (page - 1) * PageSize

\* Post.find(query).sort({_id: -1}).limit(20).skip((page - 1) * 20)
Find(query, page) ==
    LET ids == SortDesc({i \in DOMAIN store : Matches(store[i], query)}, nextId - 1)
        from == SkipOf(page) + 1
        to == Min(Len(ids), SkipOf(page) + PageSize)
    IN [k \in 1..(IF to >= from THEN to - from + 1 ELSE 0) |-> store[ids[from + k - 1]]]

\* Post.countDocuments(query)
CountDocuments(query) == Cardinality({i \in DOMAIN store : Matches(store[i], query)})

\* Math.ceil(postCount / 20)
LastPage(postCount) == (postCount + PageSize - 1) \div PageSize

\* parseInt(ctx.query.page, 10) || 1
PageOfOrOne(page) == IF page.st = "ok" /\ page.v # 0 THEN page.v ELSE 1

\* parseInt(ctx.query.page || '1', 10)
PageOf(page) == IF page.st = "ok" THEN page.v ELSE 1

\* page < 1
PageRejected(page) == page < 1

-----------------------------------------------------------------------------
(* The handlers *)

\* the request ends here: respond, the slot is free again
Respond(r, req, status, body, lastPage, ops, post) ==
    /\ out' = MkResp(req, status, body, lastPage, ops, post)
    /\ ctx' = [ctx EXCEPT ![r] = Idle]

\* the request waits for its next store operation
Await(r, pc, req, post, data, posts, ops) ==
    /\ out' = NoResp
    /\ ctx' = [ctx EXCEPT ![r] = MkCtx(pc, req, post, data, posts, ops)]

\* new Post({title, body: sanitizeHtml(body), image: parseImageToBody(body),
\*           tags, count: 0, user})
NewPost(id, payload, user, rnd) ==
    MkPost(id, payload.title.v, sanitizeHtml(payload.body.v, sanitizeOption),
           parseImageToBody(payload.body, rnd), payload.tags.v, 0, user)

\* whether parseImageToBody(body) uses the index it draws
DrawsIndex(body) == parseImageToBody(body, 0) = FallbackImage(0)

\* the indexes Math.random can give where the outcome depends on it
Draws(body) == IF DrawsIndex(body) THEN RandomIndex ELSE {0}

\* read incrementing only a count above 0
ReadNextDataAboveZero(post) ==
    IF post.count > 0 THEN [post EXCEPT !.count = post.count + 1] ELSE post

\* read: nextData = ctx.state.post with its count incremented
ReadNextData(post) ==
    IF post.count >= 0 THEN [post EXCEPT !.count = post.count + 1] ELSE post

\* update sanitizing nextData.body whether the payload has one or not
\* (sanitizeHtml of undefined is the empty text)
UpdateNextDataUnguarded(payload, rnd) ==
    [NoUpdate EXCEPT
        !.title = payload.title,
        !.tags = payload.tags,
        !.image = Ok(parseImageToBody(payload.body, rnd)),
        !.body = Ok(sanitizeHtml(payload.body.v, sanitizeOption))]

\* update: nextData = {...ctx.request.body}, image = parseImageToBody(body),
\* body sanitized when present
UpdateNextData(payload, rnd) ==
    [NoUpdate EXCEPT
        !.title = payload.title,
        !.tags = payload.tags,
        !.image = Ok(parseImageToBody(payload.body, rnd)),
        !.body = IF payload.body.st = "ok"
                 THEN Ok(sanitizeHtml(payload.body.v, sanitizeOption))
                 ELSE payload.body]

\* GET /posts: list up to the answer of Post.find
list(r) ==
    /\ ctx[r].pc = "idle"
    /\ \E page \in PageInputs, tag \in TagInputs, username \in UsernameInputs :
        LET req == MkReq("LIST", BadId, NoUser, NoPayload, page, tag, username)
        IN IF PageRejected(PageOf(page))
           THEN Respond(r, req, 400, <<>>, 0, <<>>, <<>>)
           ELSE Await(r, "count", req, <<>>, NoUpdate,
                      Find(MkQuery(tag, username), PageOf(page)), <<"find">>)
    /\ UNCHANGED <<store, nextId>>

\* GET /posts: the answer of Post.countDocuments, the header and the body
listCount(r) ==
    /\ ctx[r].pc = "count"
    /\ LET c == ctx[r]
           postCount == CountDocuments(MkQuery(c.req.tag, c.req.username))
       IN Respond(r, c.req, 200,
                  [k \in 1..Len(c.posts) |->
                      [c.posts[k] EXCEPT !.body = removeHtmlAndShorten(c.posts[k].body)]],
                  LastPage(postCount), Append(c.ops, "countDocuments"), <<>>)
    /\ UNCHANGED <<store, nextId>>

\* POST /posts: write, with the answer of post.save(); cap bounds the posts
\* ever created
write(r, cap) ==
    /\ ctx[r].pc = "idle"
    /\ \E user \in Users, payload \in Payloads :
        LET req == MkReq("POST", BadId, user, payload, Absent(1), "", "")
        IN IF ~ValidWrite(payload)
           THEN Respond(r, req, 400, <<>>, 0, <<>>, <<>>) /\ UNCHANGED <<store, nextId>>
           ELSE \E rnd \in Draws(payload.body) :
                LET post == NewPost(nextId, payload, user, rnd)
                IN /\ nextId <= cap
                   /\ store' = (nextId :> post) @@ store
                   /\ nextId' = nextId + 1
                   /\ Respond(r, req, 200, <<post>>, 0, <<"save">>, <<>>)

\* what follows the lookup of DELETE and PATCH: checkOwnPost, then remove up
\* to its findByIdAndRemove, or update up to its findByIdAndUpdate.  The
\* handlers never look at ctx.state.post again; it is not kept.
Owned(r, req, post) ==
    IF ~IsOwnPost(post, req.user)
    THEN Respond(r, req, 403, <<>>, 0, <<"findById">>, <<post>>)
    ELSE IF req.method = "DELETE"
    THEN Await(r, "remove", req, <<>>, NoUpdate, <<>>, <<"findById">>)
    ELSE IF ~ValidUpdate(req.payload)
    THEN Respond(r, req, 400, <<>>, 0, <<"findById">>, <<post>>)
    ELSE \E rnd \in Draws(req.payload.body) :
            Await(r, "update", req, <<>>, UpdateNextData(req.payload, rnd),
                  <<>>, <<"findById">>)

\* getPostById with the answer of Post.findById, and the handlers after it up
\* to their own store operation
Lookup(r, req) ==
    IF ~ObjectIdIsValid(req.id)
    THEN Respond(r, req, 400, <<>>, 0, <<>>, <<>>)
    ELSE IF req.id \notin DOMAIN store
    THEN Respond(r, req, 404, <<>>, 0, <<"findById">>, <<>>)
    ELSE IF req.method = "GET"
    THEN /\ store[req.id].count < MaxCount
         /\ Await(r, "read", req, <<ReadNextData(store[req.id])>>, NoUpdate,
                  <<>>, <<"findById">>)
    ELSE Owned(r, req, store[req.id])

\* GET, DELETE, PATCH /posts/:id up to the store operation of the handler
getPostById(r) ==
    /\ ctx[r].pc = "idle"
    /\ \E id \in IdInputs :
        \/ Lookup(r, MkReq("GET", id, NoUser, NoPayload, Absent(1), "", ""))
        \/ \E user \in Users :
            Lookup(r, MkReq("DELETE", id, user, NoPayload, Absent(1), "", ""))
        \/ \E user \in Users, payload \in Payloads :
            Lookup(r, MkReq("PATCH", id, user, payload, Absent(1), "", ""))
    /\ UNCHANGED <<store, nextId>>

\* Post.findByIdAndUpdate(id, update, {new: true}): the store after it
FindByIdAndUpdate(id, upd) ==
    IF id \in DOMAIN store
    THEN [store EXCEPT ![id] = ApplyUpdate(store[id], upd)]
    ELSE store

\* GET /posts/:id: the answer of read's findByIdAndUpdate(nextData._id, nextData)
read(r) ==
    /\ ctx[r].pc = "read"
    /\ LET c == ctx[r]
           id == c.post[1].id
           ops == Append(c.ops, "findByIdAndUpdate")
       IN /\ store' = FindByIdAndUpdate(id, DocAsUpdate(c.post[1]))
          /\ IF id \in DOMAIN store
             THEN Respond(r, c.req, 200, <<store'[id]>>, 0, ops, c.post)
             ELSE Respond(r, c.req, 204, <<>>, 0, ops, c.post)
    /\ UNCHANGED nextId

\* PATCH /posts/:id: the answer of update's findByIdAndUpdate(id, nextData)
update(r) ==
    /\ ctx[r].pc = "update"
    /\ LET c == ctx[r]
           id == c.req.id
           ops == Append(c.ops, "findByIdAndUpdate")
       IN /\ store' = FindByIdAndUpdate(id, c.data)
          /\ IF id \in DOMAIN store
             THEN Respond(r, c.req, 200, <<store'[id]>>, 0, ops, c.post)
             ELSE Respond(r, c.req, 404, <<>>, 0, ops, c.post)
    /\ UNCHANGED nextId

\* DELETE /posts/:id: the answer of remove's findByIdAndRemove(id)
remove(r) ==
    /\ ctx[r].pc = "remove"
    /\ LET c == ctx[r]
       IN /\ store' = [i \in DOMAIN store \ {c.req.id} |-> store[i]]
          /\ Respond(r, c.req, 204, <<>>, 0, Append(c.ops, "findByIdAndRemove"), c.post)
    /\ UNCHANGED nextId

-----------------------------------------------------------------------------
(* Specifications *)

NoPosts == [i \in {} |-> MkPost(i, "", <<>>, NoImage, <<>>, 0, NoUser)]

Init ==
    /\ store = NoPosts
    /\ nextId = 1
    /\ ctx = [r \in Slots |-> Idle]
    /\ out = NoResp

\* requests on single posts arrive at any time and interleave at their store
\* operations
Next ==
    \E r \in Slots :
        \/ write(r, MaxPosts)
        \/ getPostById(r)
        \/ read(r)
        \/ update(r)
        \/ remove(r)

Spec == Init /\ [][Next]_vars

\* no request in flight
AllIdle == \A r \in Slots : ctx[r].pc = "idle"

\* the same requests, each starting after the one before it has been answered
NextSeq ==
    \/ AllIdle /\ write(1, MaxPosts)
    \/ AllIdle /\ getPostById(1)
    \/ read(1)
    \/ update(1)
    \/ remove(1)

SpecSeq == Init /\ [][NextSeq]_vars

\* The posts of the list specification: post i is written by Alice (odd i)
\* or Bob (even i), tagged "go" up to post g and "js" after it
ListPayload(i, g) ==
    MkPayload(Ok("t1"), Ok(IF i % 3 = 0 THEN BodyLong ELSE BodyImg),
              Ok(IF i <= g THEN <<"go">> ELSE <<"js">>))

ListPost(i, g) ==
    NewPost(i, ListPayload(i, g), IF i % 2 = 1 THEN Alice ELSE Bob, 0)

\* a store that holds all but at most one of MaxListPosts posts
InitList ==
    /\ \E n \in (MaxListPosts - 1)..MaxListPosts, g \in 0..MaxListPosts :
        /\ store = [i \in 1..n |-> ListPost(i, g)]
        /\ nextId = n + 1
    /\ ctx = [r \in Slots |-> Idle]
    /\ out = NoResp

\* list requests, one at a time, while posts are being written
NextList ==
    \/ list(1)
    \/ listCount(1)
    \/ write(2, MaxListPosts)

SpecList == InitList /\ [][NextList]_vars

-----------------------------------------------------------------------------
(* Properties *)

\* the requests this step may have started
Candidates == {out'.req} \cup {ctx'[r].req : r \in Slots}

\* this step ran the first stretch of request req: it answered it at once, or
\* left it waiting for a store operation
Started(req) ==
    \/ out' # NoResp /\ ctx' = ctx /\ out'.req = req
    \/ \E r \in Slots : ctx[r].pc = "idle" /\ ctx'[r].pc # "idle" /\ ctx'[r].req = req

\* this step answered req in its first stretch and changed nothing
AnsweredAtOnce(req, status, ops) ==
    /\ out'.req = req
    /\ out'.status = status
    /\ out'.ops = ops
    /\ ctx' = ctx
    /\ store' = store

\* slot r got the answer of the store operation it waited for at pc
Finished(r, pc) == ctx[r].pc = pc /\ ctx'[r].pc = "idle"

\* C1: a PATCH or DELETE whose requester is not the user of the post its
\* lookup finds is answered 403 in that very stretch: the store is left as it
\* was and no handler is left waiting to update or remove.
C1_ForbiddenLeavesStore ==
    [][\A req \in Candidates :
          (/\ Started(req)
           /\ req.method \in {"PATCH", "DELETE"}
           /\ req.id \in DOMAIN store
           /\ store[req.id].user._id # req.user._id)
          => AnsweredAtOnce(req, 403, <<"findById">>)]_vars

C1_Witness ==
    /\ out.status = 403
    /\ out.req.method = "PATCH"
    /\ out.req.payload = FullPayload
    /\ out.post # <<>>
    /\ out.post[1].user._id # out.req.user._id
    /\ out.req.id \in DOMAIN store

\* whether the payload of a POST or PATCH request fails its validation
FailsValidation(req) ==
    LET sts == {req.payload.title.st, req.payload.body.st, req.payload.tags.st}
    IN \/ req.method = "POST" /\ sts # {"ok"}
       \/ req.method = "PATCH" /\ "bad" \in sts

\* C2 as stated: a create or update answered 400 for its payload has issued
\* no store operation at all.
C2_NoStoreAccessBefore400 ==
    (out.status = 400 /\ FailsValidation(out.req)) => out.ops = <<>>

\* C2 amended: a create whose payload fails validation is answered 400
\* without any store operation; an update whose payload fails validation is
\* answered in its first stretch without any store write, the only store
\* operation it may have issued being the lookup's findById (400 when the
\* post is found and is the requester's own).
C2_NoWriteBefore400 ==
    [][\A req \in Candidates :
          (Started(req) /\ FailsValidation(req))
          => IF req.method = "POST"
             THEN AnsweredAtOnce(req, 400, <<>>)
             ELSE /\ out'.req = req /\ ctx' = ctx /\ store' = store
                  /\ out'.ops \in {<<>>, <<"findById">>}
                  /\ out'.status \in {400, 403, 404}
                  /\ (req.id \in DOMAIN store /\ IsOwnPost(store[req.id], req.user))
                        => (out'.status = 400 /\ out'.ops = <<"findById">>)]_vars

C2_Witness ==
    /\ out.status = 400
    /\ out.req.method = "PATCH"
    /\ out.req.payload = BadTitle
    /\ out.ops = <<"findById">>
    /\ out.post # <<>>

\* the img tags of a body the thumbnail regular expression matches
ImgTags(body) == {i \in 1..Len(body) : body[i].k = "img" /\ body[i].scheme # ""}

\* C3: every stored post's image is what the thumbnail extractor derives from
\* the post's stored body: the first img tag of the body when it has one, a
\* fallback image otherwise.
C3_ImageConsistent ==
    \A id \in DOMAIN store :
        LET post == store[id]
        IN IF ImgTags(post.body) # {}
           THEN \E i \in ImgTags(post.body) :
                   /\ \A j \in ImgTags(post.body) : i <= j
                   /\ post.image = post.body[i]
           ELSE \E rnd \in RandomIndex : post.image = FallbackImage(rnd)

\* C4: the store write of a read changes the count of the post only: title,
\* body, tags and image are after the write what they were right before it.
C4_ReadWritesCountOnly ==
    [][\A r \in Slots :
          (Finished(r, "read") /\ ctx[r].req.id \in DOMAIN store)
          => LET id == ctx[r].req.id
             IN /\ store'[id].title = store[id].title
                /\ store'[id].body = store[id].body
                /\ store'[id].tags = store[id].tags
                /\ store'[id].image = store[id].image]_vars

\* C5: a created post has count 0, and with requests running one after
\* another every read adds exactly one to the stored count and returns the
\* post with that new count, while no other request changes the count: the
\* k-th read of a post returns and leaves count k.
C5_ReadCounts ==
    [][/\ (out' # NoResp /\ out'.req.method = "POST" /\ out'.status = 200)
            => /\ out'.body[1].count = 0
               /\ store'[out'.body[1].id] = out'.body[1]
               /\ out'.body[1].id \notin DOMAIN store
       /\ \A r \in Slots : Finished(r, "read")
            => LET id == ctx[r].req.id
               IN /\ out'.status = 200
                  /\ store'[id].count = store[id].count + 1
                  /\ out'.body = <<store'[id]>>
       /\ \A id \in DOMAIN store \cap DOMAIN store' :
             store'[id].count # store[id].count
                => \E r \in Slots : Finished(r, "read") /\ ctx[r].req.id = id]_vars

C5_Witness ==
    /\ out.status = 200
    /\ out.req.method = "GET"
    /\ out.body # <<>>
    /\ out.body[1].count = 2
    /\ store[out.req.id].count = 2

\* whether a post satisfies the filters a list request gives
Satisfies(post, req) ==
    /\ req.tag # "" => req.tag \in {post.tags[i] : i \in 1..Len(post.tags)}
    /\ req.username # "" => post.user.username = req.username

\* how many posts satisfying the filters of req have a higher id than id
Rank(id, req) ==
    Cardinality({j \in DOMAIN store : j > id /\ Satisfies(store[j], req)})

\* C6: the posts a list request of page k finds are at most 20, all satisfy
\* its filters, come in descending id order and are exactly the satisfying
\* posts ranked (k-1)*20 .. (k-1)*20+19 from the highest id down; its response
\* carries those posts and Last-Page = ceil(total / 20), total being the
\* number of stored posts that satisfy the filters.
C6_ListPage ==
    [][/\ (ctx[1].pc = "idle" /\ ctx'[1].pc = "count")
            => LET req == ctx'[1].req
                   k == IF req.page.st = "ok" THEN req.page.v ELSE 1
                   posts == ctx'[1].posts
               IN /\ k >= 1
                  /\ Len(posts) <= 20
                  /\ \A i \in 1..Len(posts) :
                        /\ posts[i].id \in DOMAIN store
                        /\ posts[i] = store[posts[i].id]
                        /\ Satisfies(posts[i], req)
                  /\ \A i \in 1..(Len(posts) - 1) : posts[i].id > posts[i + 1].id
                  /\ {posts[i].id : i \in 1..Len(posts)} =
                        {id \in DOMAIN store :
                            /\ Satisfies(store[id], req)
                            /\ Rank(id, req) >= (k - 1) * 20
                            /\ Rank(id, req) < k * 20}
       /\ Finished(1, "count")
            => LET req == ctx[1].req
                   total == Cardinality({id \in DOMAIN store : Satisfies(store[id], req)})
               IN /\ out'.req = req
                  /\ out'.status = 200
                  /\ out'.lastPage * 20 >= total
                  /\ (out'.lastPage - 1) * 20 < total
                  /\ Len(out'.body) = Len(ctx[1].posts)
                  /\ \A i \in 1..Len(out'.body) :
                        out'.body[i].id = ctx[1].posts[i].id]_vars

C6_Witness ==
    /\ out.status = 200
    /\ out.req.method = "LIST"
    /\ out.req.page = Ok(2)
    /\ out.req.tag = "go"
    /\ out.req.username = ""
    /\ Len(out.body) = 5
    /\ out.lastPage = 2
    /\ out.body[1].id = 5

\* C7: a list request whose page is an integer below 1 is answered 400
\* without any store query.
C7_BadPageNoQuery ==
    [][\A req \in Candidates :
          (Started(req) /\ req.method = "LIST" /\ req.page.st = "ok" /\ req.page.v < 1)
          => AnsweredAtOnce(req, 400, <<>>) /\ out'.body = <<>>]_vars

C7_Witness ==
    /\ out.status = 400
    /\ out.req.method = "LIST"
    /\ out.req.page = Ok(0)
    /\ out.ops = <<>>
    /\ DOMAIN store # {}

\* C8: the store write of an update whose payload holds tags only leaves the
\* title and body of the post as they were, replaces its tags by the
\* payload's and overwrites its image by a recomputed (fallback) image.
C8_TagsOnlyUpdate ==
    [][\A r \in Slots :
          (/\ Finished(r, "update")
           /\ ctx[r].req.payload = OnlyTags
           /\ ctx[r].req.id \in DOMAIN store)
          => LET id == ctx[r].req.id
             IN /\ store'[id].title = store[id].title
                /\ store'[id].body = store[id].body
                /\ store'[id].tags = OnlyTags.tags.v
                /\ \E rnd \in RandomIndex : store'[id].image = FallbackImage(rnd)
                /\ out'.status = 200
                /\ out'.body = <<store'[id]>>]_vars

C8_Witness ==
    /\ out.status = 200
    /\ out.req.method = "PATCH"
    /\ out.req.payload = OnlyTags
    /\ out.body # <<>>
    /\ out.body[1].tags = <<"js">>
    /\ out.body[1].title = "t1"
    /\ out.body[1].body = sanitizeHtml(BodyImg, sanitizeOption)
    /\ out.body[1].image # BodyImg[3]

\* C9: a read, update or delete by id with a malformed id is answered 400
\* without any store query, one with a well-formed id no post has is answered
\* 404 after the lookup alone; either way the store is left as it was and no
\* handler is left waiting.
C9_LookupGates ==
    [][\A req \in Candidates :
          (Started(req) /\ req.method \in {"GET", "PATCH", "DELETE"})
          => /\ req.id = BadId => AnsweredAtOnce(req, 400, <<>>)
             /\ (req.id # BadId /\ req.id \notin DOMAIN store)
                   => AnsweredAtOnce(req, 404, <<"findById">>)]_vars

C9_Witness ==
    /\ out.status = 404
    /\ out.req.method = "PATCH"
    /\ out.ops = <<"findById">>
    /\ out.req.id < nextId
    /\ out.req.id \notin DOMAIN store

\* C10: no store write lowers the count of a post.
C10_CountNeverDecreases ==
    [][\A id \in DOMAIN store \cap DOMAIN store' :
          store'[id].count >= store[id].count]_vars

====
